---- MODULE Spec2Model ----
(***************************************************************************)
(* Model of src/app.py, a Streamlit script: every user interaction runs    *)
(* the whole script once, top to bottom, against st.session_state.  One    *)
(* action of the model is one script run.                                  *)
(*                                                                         *)
(* Python values: None is the record None; a str that may be None is       *)
(* wrapped by Str; a timestamp string is the tuple of its characters (so   *)
(* that split(":") is computed); a relevance 0.3 is the integer 3 (tenths).*)
(***************************************************************************)
EXTENDS Integers, Sequences, FiniteSets, TLC

VARIABLES
    session_state,   \* st.session_state: search_results, selected_video
    search_type,     \* the radio widget's value
    query,           \* the text_input widget's value
    run,             \* what the last script run did (requests, output, exception)
    call             \* the pure-function specifications' input and output

vars == <<session_state, search_type, query, run, call>>

\* ------------------------------------------------------------ bounds
MaxHits == 2        \* records in one search response
MaxCatalog == 2     \* documents in one catalog listing
MaxTsLen == 7       \* characters in a timestamp string of SpecTime

\* ------------------------------------------------------------ Python values
None == [py |-> "None"]
Str(s) == [str |-> s]

RECURSIVE Join(_)
Join(chars) == IF chars = <<>> THEN "" ELSE Head(chars) \o Join(Tail(chars))

\* ------------------------------------------------------------ timestamp conversion
Digits == {"0", "1", "2", "3", "4", "5", "6", "7", "8", "9"}

DigitVal(c) ==
    CASE c = "0" -> 0 [] c = "1" -> 1 [] c = "2" -> 2 [] c = "3" -> 3
      [] c = "4" -> 4 [] c = "5" -> 5 [] c = "6" -> 6 [] c = "7" -> 7
      [] c = "8" -> 8 [] c = "9" -> 9

RECURSIVE Pow10(_)
Pow10(n) == IF n = 0 THEN 1 ELSE 10 * Pow10(n - 1)

\* the value of a run of decimal digits
RECURSIVE DecVal(_)
DecVal(ds) ==
    IF ds = <<>> THEN 0
    ELSE DecVal(SubSeq(ds, 1, Len(ds) - 1)) * 10 + DigitVal(ds[Len(ds)])

AllDigits(cs) == \A i \in 1..Len(cs) : cs[i] \in Digits

\* str.split(":"): the pieces between the separators, always at least one
RECURSIVE split(_)
split(s) ==
    IF \A i \in 1..Len(s) : s[i] # ":"
    THEN <<s>>
    ELSE LET i == CHOOSE k \in 1..Len(s) :
                      s[k] = ":" /\ \A j \in 1..(k - 1) : s[j] # ":"
         IN  <<SubSeq(s, 1, i - 1)>> \o split(SubSeq(s, i + 1, Len(s)))

\* int(str) on the characters 0-9 . : x : digits only, at least one
int(cs) ==
    IF cs # <<>> /\ AllDigits(cs)
    THEN [exc |-> "none", val |-> DecVal(cs)]
    ELSE [exc |-> "ValueError", val |-> 0]

\* float(str) on the same characters: digits with at most one ".", at least
\* one digit; the value is the exact fraction num/den (the rounding of a
\* double, far below a millisecond here, is left out)
float(cs) ==
    LET dots == {i \in 1..Len(cs) : cs[i] = "."}
    IN  IF dots = {}
        THEN IF cs # <<>> /\ AllDigits(cs)
             THEN [exc |-> "none", num |-> DecVal(cs), den |-> 1]
             ELSE [exc |-> "ValueError", num |-> 0, den |-> 1]
        ELSE LET d == CHOOSE i \in dots : TRUE
                 whole == SubSeq(cs, 1, d - 1)
                 frac == SubSeq(cs, d + 1, Len(cs))
             IN  IF Cardinality(dots) = 1 /\ AllDigits(whole) /\ AllDigits(frac)
                    /\ Len(whole) + Len(frac) > 0
                 THEN [exc |-> "none",
                       num |-> DecVal(whole) * Pow10(Len(frac)) + DecVal(frac),
                       den |-> Pow10(Len(frac))]
                 ELSE [exc |-> "ValueError", num |-> 0, den |-> 1]

Raised(e) == [exc |-> e, num |-> 0, den |-> 1]

\* lines 220-225: the operands are evaluated left to right, so the first
\* failing one decides the exception; a fourth component is never read
best_time_seconds(best_time) ==
    LET best_time_parts == split(best_time)
        n == Len(best_time_parts)
        h == int(best_time_parts[1])
        m == int(best_time_parts[2])
        s == float(best_time_parts[3])
    IN  IF h.exc # "none" THEN Raised(h.exc)
        ELSE IF n < 2 THEN Raised("IndexError")
        ELSE IF m.exc # "none" THEN Raised(m.exc)
        ELSE IF n < 3 THEN Raised("IndexError")
        ELSE IF s.exc # "none" THEN Raised(s.exc)
        ELSE [exc |-> "none",
              num |-> (h.val * 3600 + m.val * 60) * s.den + s.num,
              den |-> s.den]

\* line 227: int(best_time_seconds)
start_time(secs) == secs.num \div secs.den

\* ------------------------------------------------------------ the external services
\* match records of the index (section 6: documentId, documentKind, relevance,
\* start, end, best).  RecB carries a two-component timestamp; RecC names a
\* document the catalog does not list and ties with RecA on relevance
RecA == [documentId |-> "doc1", documentKind |-> "VideoInterval", relevance |-> 3,
         start |-> "00:00:04", end |-> "00:00:06",
         best |-> <<"0", "0", ":", "0", "0", ":", "0", "5">>]
RecB == [documentId |-> "doc2", documentKind |-> "VideoInterval", relevance |-> 9,
         start |-> "00:01:00", end |-> "00:03:00",
         best |-> <<"1", ":", "2">>]
RecC == [documentId |-> "doc3", documentKind |-> "VideoFrame", relevance |-> 3,
         start |-> "00:00:11", end |-> "00:00:12",
         best |-> <<"0", "0", ":", "0", "0", ":", "1", "1", ".", "0", "1", "1">>]
Records == {RecA, RecB, RecC}

SeqsUpTo(S, n) == UNION {[1..k -> S] : k \in 0..n}

\* a JSON object: its keys and, under "value", its list
Dict(keys, value) == [keys |-> keys, value |-> value]
EmptyDict == Dict({}, <<>>)

\* what requests.post can bring back: a failure (transport, HTTP status, body
\* that is no JSON), or a JSON object with or without a "value" list
Responses ==
    {[ok |-> FALSE, json |-> EmptyDict],
     [ok |-> TRUE, json |-> EmptyDict],
     [ok |-> TRUE, json |-> Dict({"error"}, <<>>)]}
    \cup {[ok |-> TRUE, json |-> Dict({"value"}, v)] : v \in SeqsUpTo(Records, MaxHits)}

Documents ==
    {[documentId |-> "doc1", documentUrl |-> "https://x/doc1"],
     [documentId |-> "doc2", documentUrl |-> "https://x/doc2"],
     [documentId |-> "doc1", documentUrl |-> "https://y/doc1"]}

\* the document listing the running session sees
Catalog ==
    <<[documentId |-> "doc1", documentUrl |-> "https://x/doc1"],
      [documentId |-> "doc2", documentUrl |-> "https://x/doc2"]>>

\* requests.get on the listing: answered with a JSON "value" list, or the
\* transport raises (line 107 stands outside any try block)
Listing(ok, value) == [ok |-> ok, value |-> value]

\* generate_container_sas: a token, or None for "raises" (malformed credentials)
Signers == {Str("sv=sig"), None}

\* ------------------------------------------------------------ search_videos
Post(json) == [method |-> "POST", endpoint |-> "queryByText", json |-> json]
Get == [method |-> "GET", endpoint |-> "documents", json |-> None]

\* lines 59-71, as a fresh run of the script leaves them
Begin(ss) ==
    [ss |-> ss,
     query_by_text |-> [queryText |-> "<user query>", featureFilters |-> <<"vision">>],
     query_by_speech |-> [queryText |-> "<user query>", featureFilters |-> <<"speech">>],
     requests |-> <<>>,
     results |-> None,
     message |-> "",
     form |-> FALSE,
     video |-> [called |-> FALSE, data |-> None, start_time |-> 0],
     table |-> None,
     exc |-> "none"]

\* input_query with the Speech branch lost: the query always goes into query_by_text
input_query_text_only(rs, q, query_type) == [rs EXCEPT !.query_by_text.queryText = q]

\* lines 82-88: the template of the mode, with the query written into it
input_query(rs, q, query_type) ==
    IF query_type = "Speech"
    THEN [rs EXCEPT !.query_by_speech.queryText = q]
    ELSE [rs EXCEPT !.query_by_text.queryText = q]

\* lines 75-97
search_videos(rs, q, query_type, resp) ==
    LET r1 == input_query(rs, q, query_type)
        json == IF query_type = "Speech" THEN r1.query_by_speech ELSE r1.query_by_text
    IN  [r1 EXCEPT !.requests = Append(@, Post(json)),
                   !.results = IF resp.ok THEN resp.json ELSE None]

\* ------------------------------------------------------------ the result frame
\* pd.DataFrame(list of dicts): rows labelled 0, 1, ... in arrival order
DataFrame(value) == [i \in 1..Len(value) |-> [label |-> i - 1, rec |-> value[i]]]

Columns(frame) == IF frame = <<>> THEN {} ELSE DOMAIN frame[1].rec

Perms(n) == {p \in [1..n -> 1..n] : \A i, j \in 1..n : i # j => p[i] # p[j]}

Descending(frame) ==
    \A i \in 1..(Len(frame) - 1) : frame[i].rec.relevance >= frame[i + 1].rec.relevance

\* sort_values with the sort lost: the frame in arrival order
sort_values_arrival(frame) ==
    IF "relevance" \notin Columns(frame)
    THEN {[exc |-> "KeyError", rows |-> <<>>]}
    ELSE {[exc |-> "none", rows |-> frame]}

\* sort_values(by="relevance", ascending=False): KeyError when the frame has no
\* such column; kind is left at its default "quicksort", which pandas documents
\* as not stable, so rows of equal relevance come out in any order
sort_values(frame) ==
    IF "relevance" \notin Columns(frame)
    THEN {[exc |-> "KeyError", rows |-> <<>>]}
    ELSE {[exc |-> "none", rows |-> [i \in 1..Len(frame) |-> frame[p[i]]]] :
             p \in {q \in Perms(Len(frame)) :
                      Descending([i \in 1..Len(frame) |-> frame[q[i]]])}}

\* results and "value" in results  (line 161)
HasValue(results) == results # None /\ results.keys # {} /\ "value" \in results.keys

\* the frame line 162 builds, when it builds one
FrameOf(resp) == IF resp.ok /\ HasValue(resp.json) THEN DataFrame(resp.json.value) ELSE <<>>

\* lines 156-167, the Search button pressed; sorted is what sort_values gave
SearchBlock(rs, q, query_type, resp, sorted) ==
    LET r1 == search_videos(rs, q, query_type, resp)
    IN  IF HasValue(r1.results)
        THEN IF sorted.exc # "none"
             THEN [r1 EXCEPT !.exc = sorted.exc]
             ELSE [r1 EXCEPT !.ss.search_results = [rows |-> sorted.rows, Select |-> FALSE]]
        ELSE [r1 EXCEPT !.ss.search_results = None, !.message = "No results found."]

\* ------------------------------------------------------------ the selection form
\* results_df.iloc[i]: the row at POSITION i, from 0
iloc(rows, i) == rows[i + 1].rec

\* lines 193-199
selected_video_of(row) ==
    [document_id |-> row.documentId,
     best_time |-> row.best,
     start_time |-> row.start,
     end_time |-> row.end,
     document_kind |-> row.documentKind]

\* lines 173-199: the form is drawn when there are results; Play with a
\* non-empty selection takes the first selected index LABEL and reads the
\* row at that POSITION
FormBlock(rs, play, selected_indexes) ==
    IF rs.exc # "none" \/ rs.ss.search_results = None
    THEN rs
    ELSE LET r1 == [rs EXCEPT !.ss.search_results.Select = TRUE, !.form = TRUE]
         IN  IF play /\ selected_indexes # <<>>
             THEN [r1 EXCEPT !.ss.selected_video =
                      selected_video_of(iloc(r1.ss.search_results.rows, selected_indexes[1]))]
             ELSE r1

\* ------------------------------------------------------------ get_video_url
Matches(listing, document_id) ==
    {i \in 1..Len(listing.value) : listing.value[i].documentId = document_id}

\* lines 123-125
sas_url(documentUrl, best_time, sas_token) ==
    documentUrl \o "?start=" \o Join(best_time) \o "&" \o sas_token

\* get_video_url with the documentId test lost: the first entry is taken
get_video_url_first_entry(document_id, best_time, listing, signer) ==
    IF ~listing.ok
    THEN [exc |-> "ConnectionError", ret |-> None, signed |-> 0, composed |-> 0]
    ELSE IF listing.value = <<>>
    THEN [exc |-> "none", ret |-> None, signed |-> 0, composed |-> 0]
    ELSE IF signer = None
    THEN [exc |-> "none", ret |-> None, signed |-> 1, composed |-> 0]
    ELSE [exc |-> "none",
          ret |-> Str(sas_url(listing.value[1].documentUrl, best_time, signer.str)),
          signed |-> 1, composed |-> 1]

\* lines 101-127.  signed counts the calls of generate_container_sas, composed
\* is the position of the catalog entry whose URL was composed (0: none)
get_video_url(document_id, best_time, listing, signer) ==
    IF ~listing.ok
    THEN [exc |-> "ConnectionError", ret |-> None, signed |-> 0, composed |-> 0]
    ELSE LET hits == Matches(listing, document_id)
         IN  IF hits = {}
             THEN [exc |-> "none", ret |-> None, signed |-> 0, composed |-> 0]
             ELSE LET i == CHOOSE k \in hits : \A j \in hits : k <= j
                  IN  IF signer = None
                      THEN [exc |-> "none", ret |-> None, signed |-> 1, composed |-> 0]
                      ELSE [exc |-> "none",
                            ret |-> Str(sas_url(listing.value[i].documentUrl,
                                                best_time, signer.str)),
                            signed |-> 1, composed |-> i]

\* ------------------------------------------------------------ the player and the table
\* lines 204-227
PlayerBlock(rs, listing, signer) ==
    IF rs.exc # "none" \/ rs.ss.selected_video = None
    THEN rs
    ELSE LET selected_video == rs.ss.selected_video
             g == get_video_url(selected_video.document_id, selected_video.best_time,
                                listing, signer)
             secs == best_time_seconds(selected_video.best_time)
             r1 == [rs EXCEPT !.requests = Append(@, Get)]
         IN  IF g.exc # "none" THEN [r1 EXCEPT !.exc = g.exc]
             ELSE IF secs.exc # "none" THEN [r1 EXCEPT !.exc = secs.exc]
             ELSE [r1 EXCEPT !.video = [called |-> TRUE, data |-> g.ret,
                                        start_time |-> start_time(secs)]]

\* lines 231-236: the index labels, in the frame's order
TableBlock(rs) ==
    IF rs.exc # "none" \/ rs.ss.search_results = None
    THEN rs
    ELSE [rs EXCEPT !.table =
             [labels |-> [i \in 1..Len(rs.ss.search_results.rows) |->
                             rs.ss.search_results.rows[i].label]]]

\* ------------------------------------------------------------ the session
\* reset_search with its second assignment lost
reset_search_results_only(ss) == [ss EXCEPT !.search_results = None]

\* lines 136-138
reset_search(ss) == [ss EXCEPT !.search_results = None, !.selected_video = None]

Queries == {"", "cat"}
Modes == {"Vision", "Speech"}

Labels(ss) ==
    IF ss.search_results = None THEN {}
    ELSE {ss.search_results.rows[i].label : i \in 1..Len(ss.search_results.rows)}

\* what the multiselect can hand over: the chosen labels, in the order chosen
Selections(ss) ==
    {<<>>} \cup {<<a>> : a \in Labels(ss)}
           \cup {p \in Labels(ss) \X Labels(ss) : p[1] # p[2]}

PlayerEnvs(ss) ==
    IF ss.selected_video = None
    THEN {[listing |-> Listing(TRUE, Catalog), signer |-> None]}
    ELSE {[listing |-> Listing(FALSE, <<>>), signer |-> None]}
         \cup {[listing |-> Listing(TRUE, Catalog), signer |-> sg] : sg \in Signers}

NoCall == [fn |-> "none", arg |-> None, out |-> None]

\* the end of a script run: the session keeps rs.ss, the rest is what was seen
Commit(action, rs) ==
    /\ session_state' = rs.ss
    /\ run' = [action |-> action,
               had |-> [results |-> session_state.search_results # None,
                        selected |-> session_state.selected_video # None],
               requests |-> rs.requests,
               results |-> rs.results,
               message |-> rs.message,
               form |-> rs.form,
               video |-> rs.video,
               table |-> rs.table,
               exc |-> rs.exc]
    /\ UNCHANGED call

\* the script from line 169 on, no button pressed in the form unless play
Rest(rs, play, selected_indexes, env) ==
    TableBlock(PlayerBlock(FormBlock(rs, play, selected_indexes), env.listing, env.signer))

\* the first run of the script (lines 150-154): nothing stored, nothing drawn
SessionIdle ==
    /\ session_state = [search_results |-> None, selected_video |-> None]
    /\ search_type = "Vision"
    /\ query = ""
    /\ run = [action |-> "load",
              had |-> [results |-> FALSE, selected |-> FALSE],
              requests |-> <<>>, results |-> None, message |-> "", form |-> FALSE,
              video |-> [called |-> FALSE, data |-> None, start_time |-> 0],
              table |-> None, exc |-> "none"]

Init == SessionIdle /\ call = NoCall

\* the Search button
Search ==
    \E resp \in Responses :
      \E sorted \in sort_values(FrameOf(resp)) :
        \E env \in PlayerEnvs(session_state) :
          /\ Commit("search",
                    Rest(SearchBlock(Begin(session_state), query, search_type, resp, sorted),
                         FALSE, <<>>, env))
          /\ UNCHANGED <<search_type, query>>

\* the radio changed: on_change=reset_search, then the script
ChangeMode ==
    \E m \in Modes \ {search_type} :
      \E env \in PlayerEnvs(reset_search(session_state)) :
        /\ search_type' = m
        /\ Commit("mode", Rest(Begin(reset_search(session_state)), FALSE, <<>>, env))
        /\ UNCHANGED query

\* the form's Play button, drawn by the last run
Play ==
    /\ run.form
    /\ \E selected_indexes \in Selections(session_state) :
         LET r1 == FormBlock(Begin(session_state), TRUE, selected_indexes)
         IN  \E env \in PlayerEnvs(r1.ss) :
               Commit("play", TableBlock(PlayerBlock(r1, env.listing, env.signer)))
    /\ UNCHANGED <<search_type, query>>

\* the text input changed
EditQuery ==
    \E q \in Queries \ {query} :
      \E env \in PlayerEnvs(session_state) :
        /\ query' = q
        /\ Commit("edit", Rest(Begin(session_state), FALSE, <<>>, env))
        /\ UNCHANGED search_type

Next == Search \/ ChangeMode \/ Play \/ EditQuery

Spec == Init /\ [][Next]_vars

\* ------------------------------------------------------------ get_video_url alone
DocumentIds == {"doc1", "doc2", "doc3"}

Listings ==
    {Listing(FALSE, <<>>)}
    \cup {Listing(TRUE, c) : c \in SeqsUpTo(Documents, MaxCatalog)}

InitUrl ==
    /\ SessionIdle
    /\ \E d \in DocumentIds, t \in {RecA.best, RecB.best}, l \in Listings, sg \in Signers :
         call = [fn |-> "get_video_url",
                 arg |-> [document_id |-> d, best_time |-> t, listing |-> l, signer |-> sg],
                 out |-> None]

Resolve ==
    /\ call.fn = "get_video_url"
    /\ call.out = None
    /\ call' = [call EXCEPT !.out = get_video_url(call.arg.document_id, call.arg.best_time,
                                                  call.arg.listing, call.arg.signer)]
    /\ UNCHANGED <<session_state, search_type, query, run>>

NextUrl == Resolve

SpecUrl == InitUrl /\ [][NextUrl]_vars

\* ------------------------------------------------------------ the conversion alone
TsChars == {"1", "2", ":", ".", "x"}

InitTime ==
    /\ SessionIdle
    /\ \E ts \in SeqsUpTo(TsChars, MaxTsLen) :
         call = [fn |-> "best_time_seconds", arg |-> [best_time |-> ts], out |-> None]

Convert ==
    /\ call.fn = "best_time_seconds"
    /\ call.out = None
    /\ call' = [call EXCEPT !.out = best_time_seconds(call.arg.best_time)]
    /\ UNCHANGED <<session_state, search_type, query, run>>

NextTime == Convert

SpecTime == InitTime /\ [][NextTime]_vars

\* ------------------------------------------------------------ the claims
Rows == session_state.search_results.rows
HasResults == session_state.search_results # None
HasSelection == session_state.selected_video # None

\* C1: right after the search mode is changed, whatever was stored, both
\* search_results and selected_video are empty.
C1_ModeChangeClearsBoth ==
    run.action = "mode" => ~HasResults /\ ~HasSelection

C1_Witness ==
    /\ run.action = "mode"
    /\ run.had.results /\ run.had.selected
    /\ ~HasResults /\ ~HasSelection

\* C2: after a Search action, successful or failed, selected_video is empty.
C2_SearchClearsSelection ==
    run.action = "search" => ~HasSelection

\* C3: a well-formed response whose value list is empty ends the Search action
\* with an empty result set and no uncaught failure.
C3_EmptyResponseGivesEmptyResultSet ==
    (run.action = "search" /\ run.results = Dict({"value"}, <<>>))
        => /\ run.exc = "none"
           /\ HasResults
           /\ Rows = <<>>

\* C4: whenever there are results, they are in non-increasing order of
\* relevance, and the table a run draws shows them in that order.
C4_PresentedByRelevance ==
    HasResults =>
        /\ Descending(Rows)
        /\ run.table # None =>
               run.table.labels = [i \in 1..Len(Rows) |-> Rows[i].label]

C4_Witness ==
    /\ run.action = "play"
    /\ HasResults /\ HasSelection
    /\ run.table # None
    /\ run.table.labels = <<1, 0>>
    /\ Rows[1].rec.relevance > Rows[2].rec.relevance

\* C5: records of equal relevance keep their arrival order in the results.
C5_SortIsStable ==
    HasResults =>
        \A i, j \in 1..Len(Rows) :
            (i < j /\ Rows[i].rec.relevance = Rows[j].rec.relevance)
                => Rows[i].label < Rows[j].label

\* C6: when no catalog entry has the requested documentId, get_video_url
\* returns no URL and neither signs nor composes; a URL is only ever composed
\* from the first entry whose documentId matches.
C6_NoMatchNoUrl ==
    (call.fn = "get_video_url" /\ call.out # None) =>
        LET a == call.arg
            o == call.out
            hits == Matches(a.listing, a.document_id)
        IN  /\ (a.listing.ok /\ hits = {}) =>
                   o.ret = None /\ o.signed = 0 /\ o.composed = 0
            /\ o.composed # 0 =>
                   /\ o.composed \in hits
                   /\ \A k \in hits : o.composed <= k
            /\ o.ret # None => o.composed # 0

C6_Witness ==
    /\ call.fn = "get_video_url" /\ call.out # None
    /\ call.arg.listing.ok
    /\ Len(call.arg.listing.value) = MaxCatalog
    /\ Matches(call.arg.listing, call.arg.document_id) = {}
    /\ call.arg.signer # None
    /\ call.out.ret = None /\ call.out.signed = 0

\* C7: none of the four error kinds leaves its action uncaught: a failed
\* search ends with no results and the "No results found." message, and no
\* format error of the timestamp (ValueError, IndexError) ends a run.
C7_ErrorsRecovered ==
    /\ (run.action = "search" /\ run.results = None) =>
           ~HasResults /\ run.message = "No results found."
    /\ run.exc \notin {"ValueError", "IndexError"}

\* C8: the conversion fails unless the string has exactly three components,
\* two integers and a float, and then gives hours*3600 + minutes*60 + seconds.
C8_ExactlyThreeComponents ==
    (call.fn = "best_time_seconds" /\ call.out # None) =>
        LET parts == split(call.arg.best_time)
            wellFormed == /\ Len(parts) = 3
                          /\ int(parts[1]).exc = "none"
                          /\ int(parts[2]).exc = "none"
                          /\ float(parts[3]).exc = "none"
        IN  IF wellFormed
            THEN /\ call.out.exc = "none"
                 /\ call.out.den = float(parts[3]).den
                 /\ call.out.num =
                        (int(parts[1]).val * 3600 + int(parts[2]).val * 60) * call.out.den
                        + float(parts[3]).num
            ELSE call.out.exc # "none"

\* C9: the payload of every search request carries exactly the feature filter
\* of the current mode and the current query text.
C9_PayloadMatchesModeAndQuery ==
    \A i \in 1..Len(run.requests) :
        run.requests[i].method = "POST" =>
            /\ run.requests[i].json.featureFilters =
                   (IF search_type = "Vision" THEN <<"vision">> ELSE <<"speech">>)
            /\ run.requests[i].json.queryText = query

C9_Witness ==
    /\ run.action = "search"
    /\ search_type = "Speech" /\ query = "cat"
    /\ run.had.results
    /\ Len(run.requests) >= 1
    /\ run.requests[1] = Post([queryText |-> "cat", featureFilters |-> <<"speech">>])

\* C10: a Search action issues exactly one search request and nothing else,
\* and a document-listing request is only issued by a Play action.
C10_RequestsByDistinctActions ==
    /\ run.action = "search" =>
           Len(run.requests) = 1 /\ run.requests[1].method = "POST"
    /\ \A i \in 1..Len(run.requests) :
           run.requests[i].method = "GET" => run.action = "play"

====
